---- MODULE Spec2Model ----
(***************************************************************************)
(* Model of the conversation preprocessor (preprocess.py) and of the       *)
(* Streamlit conversation viewer (app.py).                                 *)
(*                                                                         *)
(* Python dictionaries are functions whose DOMAIN is the set of keys that  *)
(* are present; a missing key is a key outside the DOMAIN.  Python lists   *)
(* are sequences.  Python's None is the string "None", which no datum of   *)
(* the corpus uses.                                                        *)
(***************************************************************************)
EXTENDS Integers, Sequences, FiniteSets, TLC

VARIABLES
    file,      \* conversations.json: its syntax and the records it holds
    pc,        \* position of the preprocessor run
    base_conversations,  \* argument of preprocess_data
    seed,      \* state of the random module when the run started
    rng,       \* current state of the random module
    loc,       \* local variables of preprocess_data
    disk,      \* processed_data/: the three artifacts
    written,   \* artifacts the current run has written completely
    runs,      \* preprocessor runs started so far
    prev,      \* outcome of the previous finished run
    vpc,       \* position of the viewer script
    cache,     \* st.cache_data: the value load_data returned
    selected_concepts,   \* the concept filter widget
    filtered_df,         \* the filtered summary table
    view       \* what the viewer shows for the selected conversation

vars == <<file, pc, base_conversations, seed, rng, loc, disk, written, runs,
          prev, vpc, cache, selected_concepts, filtered_df, view>>

preVars == <<pc, base_conversations, seed, rng, loc, disk, written, runs, prev>>
viewVars == <<vpc, cache, selected_concepts, filtered_df, view>>

-----------------------------------------------------------------------------
(* Bounds of the model *)

MaxRecs == 3     \* longest source collection
MaxBase == 4     \* largest base_conversations
MaxSeed == 1     \* largest seed tried
MaxRuns == 2     \* preprocessor runs in a row

-----------------------------------------------------------------------------
(* Python values *)

None == "None"

EmptyDict == <<>>

\* dict.get(key, default)
Get(d, k, dflt) == IF k \in DOMAIN d THEN d[k] ELSE dflt

\* d[key] raises KeyError
HasKey(d, k) == k \in DOMAIN d

\* truth value of a string, bool(s)
TruthyStr(s) == s # ""

\* bool(list)
TruthyList(l) == Len(l) > 0

\* all(list) over a list of strings
AllTruthy(l) == \A i \in 1..Len(l) : TruthyStr(l[i])

Min(a, b) == IF a <= b THEN a ELSE b

-----------------------------------------------------------------------------
(* The corpus the source collections are drawn from *)

ReadingResponses == "Reading Responses"

AssignmentDoc(id, type) ==
    ("_id" :> id) @@ ("title" :> ("title of " \o id)) @@ ("assignment_type" :> type)
    @@ ("subject" :> "science") @@ ("grade" :> "7")

Conv1 == ("_id" :> "c1") @@ ("student_work" :> "W1")
         @@ ("assignment" :> (AssignmentDoc("a1", ReadingResponses)
                              @@ ("text" :> "T1") @@ ("concepts" :> <<"x">>)))
Conv2 == ("_id" :> "c2") @@ ("student_work" :> "W2")
         @@ ("assignment" :> (AssignmentDoc("a2", "Essay")
                              @@ ("text" :> "T2") @@ ("concepts" :> <<"", "photosynthesis">>)))
\* no assignment_type, no text
Conv3 == ("_id" :> "c3") @@ ("student_work" :> "W3")
         @@ ("assignment" :> (("_id" :> "a3") @@ ("title" :> "title of a3")
                              @@ ("subject" :> "science") @@ ("grade" :> "7")
                              @@ ("concepts" :> <<"x", "y">>)))
\* a reading response without text and without concepts
Conv4 == ("_id" :> "c4") @@ ("student_work" :> "W4")
         @@ ("assignment" :> AssignmentDoc("a2", ReadingResponses))
\* no student_work, an empty concepts list
Conv5 == ("_id" :> "c5")
         @@ ("assignment" :> (AssignmentDoc("a3", "Essay") @@ ("concepts" :> <<>>)))
\* the _id of Conv1 on another record
Conv6 == ("_id" :> "c1") @@ ("student_work" :> "W6")
         @@ ("assignment" :> (AssignmentDoc("a2", "Essay") @@ ("concepts" :> <<"x">>)))
\* no _id
Conv7 == ("student_work" :> "W7")
         @@ ("assignment" :> (AssignmentDoc("a1", "Essay") @@ ("concepts" :> <<"y">>)))
\* an assignment without title
Conv8 == ("_id" :> "c8") @@ ("student_work" :> "W8")
         @@ ("assignment" :> (("_id" :> "a1") @@ ("assignment_type" :> "Essay")
                              @@ ("subject" :> "science") @@ ("grade" :> "7")
                              @@ ("concepts" :> <<"">>)))
\* an assignment without _id
Conv9 == ("_id" :> "c9") @@ ("student_work" :> "W9")
         @@ ("assignment" :> (("title" :> "untitled") @@ ("concepts" :> <<"x">>)))

Corpus == {Conv1, Conv2, Conv3, Conv4, Conv5, Conv6, Conv7, Conv8, Conv9}

SeqsUpTo(S, n) == UNION { [1..k -> S] : k \in 0..n }

\* conversations.json
\* records that carry every field preprocess_data indexes; Conv1 and Conv6 share an _id
Regular == {Conv1, Conv2, Conv3, Conv4, Conv5, Conv6}

\* source collections: long ones of regular records, shorter ones of any records
Collections == SeqsUpTo(Regular, MaxRecs) \cup SeqsUpTo(Corpus, MaxRecs - 1)

\* conversations.json: well-formed, with trailing commas that the repair removes,
\* or malformed beyond repair
Files ==
    [syntax : {"valid"}, records : Collections]
    \cup [syntax : {"trailing_comma"}, records : SeqsUpTo(Corpus, MaxRecs - 2)]
    \cup [syntax : {"broken"}, records : {<<>>}]

\* the collections that are run several times in a row
TwiceFiles == [syntax : {"valid"}, records : SeqsUpTo({Conv1, Conv2, Conv3}, MaxRecs)]

-----------------------------------------------------------------------------
(* preprocess.py: the pure functions *)

\* a has_valid_concepts that forgets all(concepts)
has_valid_concepts_nonempty(conversation) ==
    TruthyList(Get(Get(conversation, "assignment", EmptyDict), "concepts", <<>>))

\* has_valid_concepts(conversation)
has_valid_concepts(conversation) ==
    LET concepts == Get(Get(conversation, "assignment", EmptyDict), "concepts", <<>>)
    IN  TruthyList(concepts) /\ AllTruthy(concepts)

\* a get_student_reading that falls back to student_work when the text is missing
get_student_reading_fallback(conversation) ==
    LET assignment == Get(conversation, "assignment", EmptyDict)
    IN  IF Get(assignment, "assignment_type", None) = ReadingResponses /\ HasKey(assignment, "text")
        THEN assignment["text"]
        ELSE Get(conversation, "student_work", None)

\* get_student_reading(conversation)
get_student_reading(conversation) ==
    LET assignment == Get(conversation, "assignment", EmptyDict)
    IN  IF Get(assignment, "assignment_type", None) = ReadingResponses
        THEN Get(assignment, "text", None)
        ELSE Get(conversation, "student_work", None)

\* conv["assignment"]["_id"] does not raise KeyError
HasAssignmentId(conv) == HasKey(conv, "assignment") /\ HasKey(conv["assignment"], "_id")

AssignmentIdOf(conv) == conv["assignment"]["_id"]

\* Counter(...)[a]
CountOf(data, a) == Cardinality({i \in 1..Len(data) : AssignmentIdOf(data[i]) = a})

\* position at which the Counter first saw a (its insertion order)
FirstSeen(data, a) ==
    CHOOSE i \in 1..Len(data) :
        /\ AssignmentIdOf(data[i]) = a
        /\ \A j \in 1..(i - 1) : AssignmentIdOf(data[j]) # a

\* a most_common that takes the first assignment seen
most_common_first(data) == AssignmentIdOf(data[1])

\* assignment_counts.most_common(1)[0][0]: the largest count, the first seen among equals
most_common(data) ==
    CHOOSE a \in {AssignmentIdOf(data[i]) : i \in 1..Len(data)} :
        \A o \in {AssignmentIdOf(data[i]) : i \in 1..Len(data)} :
            \/ CountOf(data, a) > CountOf(data, o)
            \/ CountOf(data, a) = CountOf(data, o) /\ FirstSeen(data, a) <= FirstSeen(data, o)

\* [conv for conv in data if conv["assignment"]["_id"] == most_popular_assignment_id]
PopularOf(data, popId) ==
    SelectSeq(data, LAMBDA conv : AssignmentIdOf(conv) = popId)

\* a remaining_conversations that keeps the popular assignment's conversations
RemainingOf_all(data, popId) == data

\* [conv for conv in data if conv["assignment"]["_id"] != most_popular_assignment_id]
RemainingOf(data, popId) ==
    SelectSeq(data, LAMBDA conv : AssignmentIdOf(conv) # popId)

\* [conv for conv in remaining_conversations if has_valid_concepts(conv)]
WithConceptsOf(remaining) == SelectSeq(remaining, has_valid_concepts)

\* [conv for conv in remaining_conversations if not has_valid_concepts(conv)]
WithoutConceptsOf(remaining) ==
    SelectSeq(remaining, LAMBDA conv : ~has_valid_concepts(conv))

\* a half that is the whole of base_conversations
HalfOf_whole(b) == b

\* base_conversations // 2
HalfOf(b) == b \div 2

-----------------------------------------------------------------------------
(* The random module.  The generator is a state machine; a small linear    *)
(* congruential generator stands for the Mersenne Twister.                 *)

\* one step of the generator
NextRng(s) == (5 * s + 3) % 8

\* Random._randbelow(n), read off the generator's new state
RandBelow(s, n) == s % n

RECURSIVE SampleLoop(_, _, _, _, _)
\* the loop of random.sample over a pool:
\*   for i in range(k): j = randbelow(n - i); result[i] = pool[j]; pool[j] = pool[n - i - 1]
SampleLoop(pool, n, k, i, st) ==
    IF i >= k THEN st
    ELSE LET r == NextRng(st.rng)
             j == RandBelow(r, n - i) + 1
         IN  SampleLoop([pool EXCEPT ![j] = pool[n - i]], n, k, i + 1,
                        [rng |-> r, result |-> Append(st.result, pool[j])])

\* a random.sample that draws from a generator seeded anew by every run
RandomSample_reseeded(population, k, s) ==
    SampleLoop(population, Len(population), k, 0, [rng |-> (s + runs) % 8, result |-> <<>>])

\* random.sample(population, k): the sample and the generator's state after it
RandomSample(population, k, s) ==
    SampleLoop(population, Len(population), k, 0, [rng |-> s, result |-> <<>>])

-----------------------------------------------------------------------------
(* preprocess.py: flattening and the artifacts *)

\* the record of lines 116-133
Flatten(conv, popId) ==
    LET assignment == Get(conv, "assignment", EmptyDict)
    IN  [conversation_id |-> Get(conv, "_id", None),
         assignment_id |-> Get(assignment, "_id", None),
         assignment_name |-> Get(assignment, "title", None),
         assignment_type |-> Get(assignment, "assignment_type", None),
         has_concepts |-> has_valid_concepts(conv),
         concepts |-> Get(assignment, "concepts", <<>>),
         student_reading |-> get_student_reading(conv),
         is_popular_assignment |-> (AssignmentIdOf(conv) = popId)]

RECURSIVE ProcessLoop(_, _, _)
\* for conv in sampled_conversations: ... (lines 107-138)
ProcessLoop(todo, popId, acc) ==
    IF todo = <<>> THEN acc
    ELSE LET conv == Head(todo)
             conv_id == Get(conv, "_id", None)
         IN  ProcessLoop(Tail(todo), popId,
                 [conversations |-> Append(acc.conversations, Flatten(conv, popId)),
                  raw_conversations |-> (conv_id :> conv) @@ acc.raw_conversations,
                  popular_assignment_data |->
                      IF AssignmentIdOf(conv) = popId
                      THEN (conv_id :> conv) @@ acc.popular_assignment_data
                      ELSE acc.popular_assignment_data])

\* json.dump writes every key of an object as a string; None becomes "null"
JsonKey(k) == IF k = None THEN "null" ELSE k

\* json.dump(d, f) followed by json.load(f), for a dict keyed by conversation id
JsonDumpDict(d) ==
    [k2 \in {JsonKey(k) : k \in DOMAIN d} |-> d[CHOOSE k \in DOMAIN d : JsonKey(k) = k2]]

\* json.load(f) / json.loads(content) of the source file
JsonLoad(f) == [ok |-> f.syntax = "valid", value |-> f.records]

\* content.replace(",]", "]").replace(",}", "}")
RepairTrailingCommas(f) ==
    IF f.syntax = "trailing_comma" THEN [f EXCEPT !.syntax = "valid"] ELSE f

Artifacts == {"summary", "raw", "popular"}

NoFile == [exists |-> FALSE, complete |-> FALSE, content |-> <<>>]

EmptyDisk == [summary |-> NoFile, raw |-> NoFile, popular |-> NoFile]

EmptyLoc ==
    [data |-> <<>>, most_popular_assignment_id |-> None,
     popular_assignment_conversations |-> <<>>,
     with_pool |-> <<>>, without_pool |-> <<>>,
     with_concepts |-> <<>>, without_concepts |-> <<>>,
     sampled_conversations |-> <<>>, conversations |-> <<>>,
     raw_conversations |-> EmptyDict, popular_assignment_data |-> EmptyDict]

NoPrev == [outcome |-> "none", seed |-> 0, base |-> 0, summary |-> NoFile, raw |-> NoFile]

-----------------------------------------------------------------------------
(* preprocess.py: one run of preprocess_data, cut at the points where it   *)
(* raises, returns or writes a file                                        *)

Terminal == {"done", "aborted", "failed"}

\* python preprocess.py: preprocess_data(base_conversations) starts (lines 26-35);
\* s is the state the random module has at that moment
Launch(b, s) ==
    /\ pc = "idle"
    /\ runs < MaxRuns
    /\ pc' = "started"
    /\ base_conversations' = b
    /\ seed' = s
    /\ rng' = s
    /\ loc' = EmptyLoc
    /\ written' = {}
    /\ runs' = runs + 1
    /\ UNCHANGED <<file, disk, prev>>
    /\ UNCHANGED viewVars

\* python preprocess.py once more, after the previous run has ended: the same
\* base_conversations (line 188), the random module in whatever state s it starts in
Rerun(s) ==
    /\ pc \in Terminal
    /\ runs < MaxRuns
    /\ prev' = [outcome |-> pc, seed |-> seed, base |-> base_conversations,
                summary |-> disk.summary, raw |-> disk.raw]
    /\ pc' = "started"
    /\ seed' = s
    /\ rng' = s
    /\ loc' = EmptyLoc
    /\ written' = {}
    /\ runs' = runs + 1
    /\ UNCHANGED <<file, base_conversations, disk>>
    /\ UNCHANGED viewVars

\* lines 37-53: json.load, and on JSONDecodeError one repair and one retry
Parse ==
    /\ pc = "started"
    /\ LET first == JsonLoad(file)
           second == JsonLoad(RepairTrailingCommas(file))
       IN  IF first.ok
           THEN pc' = "parsed" /\ loc' = [loc EXCEPT !.data = first.value]
           ELSE IF second.ok
                THEN pc' = "parsed" /\ loc' = [loc EXCEPT !.data = second.value]
                ELSE pc' = "aborted" /\ loc' = loc
    /\ UNCHANGED <<file, base_conversations, seed, rng, disk, written, runs, prev>>
    /\ UNCHANGED viewVars

\* lines 55-138: count, partition, sample, flatten
Select ==
    /\ pc = "parsed"
    /\ IF \/ \E i \in 1..Len(loc.data) : ~HasAssignmentId(loc.data[i])   \* KeyError, line 56
          \/ Len(loc.data) = 0                                           \* IndexError, line 57
       THEN pc' = "failed" /\ UNCHANGED <<loc, rng>>
       ELSE LET data == loc.data
                popId == most_common(data)
                popular == PopularOf(data, popId)
                remaining == RemainingOf(data, popId)
                with_pool == WithConceptsOf(remaining)
                without_pool == WithoutConceptsOf(remaining)
                half == HalfOf(base_conversations)
                s1 == RandomSample(with_pool, Min(half, Len(with_pool)), rng)
                s2 == RandomSample(without_pool, Min(half, Len(without_pool)), s1.rng)
                sampled == s1.result \o s2.result \o popular
                out == ProcessLoop(sampled, popId,
                           [conversations |-> <<>>, raw_conversations |-> EmptyDict,
                            popular_assignment_data |-> EmptyDict])
            IN  /\ pc' = "selected"
                /\ rng' = s2.rng
                /\ loc' = [data |-> data, most_popular_assignment_id |-> popId,
                           popular_assignment_conversations |-> popular,
                           with_pool |-> with_pool, without_pool |-> without_pool,
                           with_concepts |-> s1.result, without_concepts |-> s2.result,
                           sampled_conversations |-> sampled,
                           conversations |-> out.conversations,
                           raw_conversations |-> out.raw_conversations,
                           popular_assignment_data |-> out.popular_assignment_data]
    /\ UNCHANGED <<file, base_conversations, seed, disk, written, runs, prev>>
    /\ UNCHANGED viewVars

\* lines 140-142: df.to_parquet("processed_data/conversations.parquet")
WriteSummary ==
    /\ pc = "selected"
    /\ disk' = [disk EXCEPT !.summary =
                   [exists |-> TRUE, complete |-> TRUE, content |-> loc.conversations]]
    /\ written' = written \cup {"summary"}
    /\ pc' = "wrote_summary"
    /\ UNCHANGED <<file, base_conversations, seed, rng, loc, runs, prev>>
    /\ UNCHANGED viewVars

\* lines 144-146: json.dump(raw_conversations, f)
WriteRaw ==
    /\ pc = "wrote_summary"
    /\ disk' = [disk EXCEPT !.raw =
                   [exists |-> TRUE, complete |-> TRUE,
                    content |-> JsonDumpDict(loc.raw_conversations)]]
    /\ written' = written \cup {"raw"}
    /\ pc' = "wrote_raw"
    /\ UNCHANGED <<file, base_conversations, seed, rng, loc, runs, prev>>
    /\ UNCHANGED viewVars

\* lines 148-159: open(..., "w") empties the file, then the document is built and
\* dumped; popular_assignment_conversations[0]["assignment"]["title"] may raise KeyError
WritePopular ==
    /\ pc = "wrote_raw"
    /\ LET first == loc.popular_assignment_conversations[1]
       IN  IF HasKey(first["assignment"], "title")
           THEN /\ disk' = [disk EXCEPT !.popular =
                               [exists |-> TRUE, complete |-> TRUE,
                                content |->
                                    [assignment_id |-> loc.most_popular_assignment_id,
                                     assignment_name |-> first["assignment"]["title"],
                                     conversations |->
                                         JsonDumpDict(loc.popular_assignment_data)]]]
                /\ written' = written \cup {"popular"}
                /\ pc' = "wrote_popular"
           ELSE /\ disk' = [disk EXCEPT !.popular =
                               [exists |-> TRUE, complete |-> FALSE, content |-> <<>>]]
                /\ written' = written
                /\ pc' = "failed"
    /\ UNCHANGED <<file, base_conversations, seed, rng, loc, runs, prev>>
    /\ UNCHANGED viewVars

\* lines 161-184: the printed breakdown indexes assignment_type, subject and grade
Report ==
    /\ pc = "wrote_popular"
    /\ LET assignment == loc.popular_assignment_conversations[1]["assignment"]
       IN  IF {"assignment_type", "subject", "grade"} \subseteq DOMAIN assignment
           THEN pc' = "done"
           ELSE pc' = "failed"
    /\ UNCHANGED <<file, base_conversations, seed, rng, loc, disk, written, runs, prev>>
    /\ UNCHANGED viewVars

-----------------------------------------------------------------------------

NoView == [kind |-> "none", selected |-> None, metadata |-> <<>>, conversation_data |-> <<>>]

NoCache == [loaded |-> FALSE, df |-> <<>>, raw_conversations |-> EmptyDict]

InitWith(files) ==
    /\ file \in files
    /\ pc = "idle"
    /\ base_conversations = 0
    /\ seed = 0
    /\ rng = 0
    /\ loc = EmptyLoc
    /\ disk = EmptyDisk
    /\ written = {}
    /\ runs = 0
    /\ prev = NoPrev
    /\ vpc = "off"
    /\ cache = NoCache
    /\ selected_concepts = "All conversations"
    /\ filtered_df = <<>>
    /\ view = NoView

Init == InitWith(Files)

Preprocess ==
    \/ \E b \in 0..MaxBase, s \in 0..MaxSeed : Launch(b, s)
    \/ Parse
    \/ Select
    \/ WriteSummary
    \/ WriteRaw
    \/ WritePopular
    \/ Report

Next == Preprocess

\* one run of the preprocessor over every source file
Spec == Init /\ [][Next]_vars

InitTwice == InitWith(TwiceFiles)

NextTwice ==
    \/ Preprocess
    \/ \E s \in 0..MaxSeed : Rerun(s)

\* the preprocessor run again and again over the same source file
SpecTwice == InitTwice /\ [][NextTwice]_vars

-----------------------------------------------------------------------------
(* app.py: the viewer script *)

ConceptOptions ==
    {"All conversations", "Teacher-selected questions", "100% AI selected questions"}

\* pandas: series == x, element by element; a comparison with a missing value is False
PandasEq(a, b) == a # None /\ b # None /\ a = b

\* df[df["conversation_id"] == x]
RowsWithId(df, x) == SelectSeq(df, LAMBDA row : PandasEq(row.conversation_id, x))

\* lines 51-56
ApplyConceptFilter(df, option) ==
    IF option = "Teacher-selected questions"
    THEN SelectSeq(df, LAMBDA row : row.has_concepts = TRUE)
    ELSE IF option = "100% AI selected questions"
         THEN SelectSeq(df, LAMBDA row : row.has_concepts = FALSE)
         ELSE df

\* filtered_df["conversation_id"].tolist()
PickerOptions(fdf) == [i \in 1..Len(fdf) |-> fdf[i].conversation_id]

\* if selected_conversation:
TruthyId(x) == x # None /\ x # ""

\* lines 10-29: the existence check of the summary table, then load_data
ViewerStart ==
    /\ vpc = "off"
    /\ IF ~disk.summary.exists
       THEN vpc' = "stopped" /\ cache' = cache              \* st.error, st.stop
       ELSE IF ~disk.raw.exists
            THEN vpc' = "crashed" /\ cache' = cache         \* FileNotFoundError, line 17
            ELSE /\ vpc' = "loaded"
                 /\ cache' = [loaded |-> TRUE, df |-> disk.summary.content,
                              raw_conversations |-> disk.raw.content]
    /\ UNCHANGED <<selected_concepts, filtered_df, view, file>>
    /\ UNCHANGED preVars

\* lines 43-59: the concept filter
ApplyFilter(option) ==
    /\ vpc \in {"loaded", "filtered", "shown"}
    /\ selected_concepts' = option
    /\ filtered_df' = ApplyConceptFilter(cache.df, option)
    /\ vpc' = "filtered"
    /\ view' = NoView
    /\ UNCHANGED <<cache, file>>
    /\ UNCHANGED preVars

\* lines 64-150: the picker and the lookup of the conversation the user picked;
\* choice is the position the user picks among the options
SelectConversation(choice) ==
    /\ vpc \in {"filtered", "shown"}
    /\ LET options == PickerOptions(filtered_df)
           selected_conversation == IF Len(options) = 0 THEN None ELSE options[choice]
       IN  /\ choice \in 1..Len(options) \/ (Len(options) = 0 /\ choice = 0)
           /\ IF \E i \in 1..Len(options) : Len(RowsWithId(filtered_df, options[i])) = 0
              THEN vpc' = "crashed" /\ view' = NoView        \* format_func: .iloc[0], IndexError
              ELSE IF ~TruthyId(selected_conversation)
                   THEN /\ vpc' = "shown"
                        /\ view' = [kind |-> "prompt", selected |-> selected_conversation,
                                    metadata |-> <<>>, conversation_data |-> <<>>]
                   ELSE IF ~HasKey(cache.raw_conversations, selected_conversation)
                        THEN vpc' = "crashed" /\ view' = NoView      \* KeyError, line 73
                        ELSE /\ vpc' = "shown"
                             /\ view' =
                                  [kind |-> "conversation",
                                   selected |-> selected_conversation,
                                   metadata |-> RowsWithId(cache.df, selected_conversation)[1],
                                   conversation_data |->
                                       cache.raw_conversations[selected_conversation]]
    /\ UNCHANGED <<cache, selected_concepts, filtered_df, file>>
    /\ UNCHANGED preVars

Viewer ==
    \/ ViewerStart
    \/ \E option \in ConceptOptions : ApplyFilter(option)
    \/ \E choice \in 0..MaxRecs : SelectConversation(choice)

\* the viewer may be started at any moment: before any preprocessing, while a run is
\* under way, or after it ended; the disk holds still while a viewing session lasts
NextViewer ==
    \/ vpc = "off" /\ Preprocess
    \/ Viewer

SpecViewer == Init /\ [][NextViewer]_vars

-----------------------------------------------------------------------------
(* The claims *)

\* the source collection as the run read it
Source == file.records

SummaryRows == disk.summary.content

RawLookup == disk.raw.content

PopularExtract == disk.popular.content

IdOf(conv) == Get(conv, "_id", None)

\* the run wrote all three artifacts and ended without an exception
Succeeded == pc = "done"

\* the run is past the sampling (lines 84-92)
PastSampling == pc \in {"selected", "wrote_summary", "wrote_raw", "wrote_popular", "done"}

\* C1: when a run of preprocess_data has ended, it has written all three artifacts
\* or none of them.
C1_AllOrNothing == pc \in Terminal => (written = {} \/ written = Artifacts)

\* C2: after a successful run the conversation_id values of the summary table are
\* exactly the keys of the raw lookup.
C2_SameKeySets ==
    Succeeded =>
        {SummaryRows[i].conversation_id : i \in 1..Len(SummaryRows)} = DOMAIN RawLookup

C4_PopularExtract ==
    Succeeded =>
        LET popId == PopularExtract.assignment_id
            convs == PopularExtract.conversations
            ofPopular == {p \in 1..Len(Source) : AssignmentIdOf(Source[p]) = popId}
        IN  /\ \A p \in 1..Len(Source) :
                  CountOf(Source, AssignmentIdOf(Source[p])) <= CountOf(Source, popId)
            /\ DOMAIN convs = {JsonKey(IdOf(Source[p])) : p \in ofPopular}
            /\ \A k \in DOMAIN convs :
                  \E p \in ofPopular : convs[k] = Source[p] /\ JsonKey(IdOf(Source[p])) = k
            /\ DOMAIN convs \subseteq DOMAIN RawLookup
            /\ \A k \in DOMAIN convs : RawLookup[k] = convs[k]
            /\ Cardinality({i \in 1..Len(SummaryRows) : SummaryRows[i].is_popular_assignment})
                 = Cardinality(ofPopular)

C4_Witness ==
    /\ Succeeded
    /\ Cardinality(DOMAIN PopularExtract.conversations) >= 2
    /\ AssignmentIdOf(Source[1]) # PopularExtract.assignment_id
    /\ Len(SummaryRows) < Len(Source)

\* the valid-concepts rule, stated on the record: a non-empty concepts sequence
\* none of whose elements is the empty string
ValidConcepts(conv) ==
    /\ HasKey(conv, "assignment")
    /\ HasKey(conv["assignment"], "concepts")
    /\ conv["assignment"]["concepts"] # <<>>
    /\ \A i \in 1..Len(conv["assignment"]["concepts"]) : conv["assignment"]["concepts"][i] # ""

\* how often a record occurs in a list
Occurrences(l, x) == Cardinality({i \in 1..Len(l) : l[i] = x})

\* C5: the sample of with_concepts has min(floor(base_conversations / 2), pool size)
\* records taken from its pool without replacement, and so has the sample of
\* without_concepts; neither is ever longer than floor(base_conversations / 2).
C5_SampleSizes ==
    PastSampling =>
        LET half == base_conversations \div 2
            nonPopular == {p \in 1..Len(Source) :
                              AssignmentIdOf(Source[p]) # loc.most_popular_assignment_id}
            nWith == Cardinality({p \in nonPopular : ValidConcepts(Source[p])})
            nWithout == Cardinality({p \in nonPopular : ~ValidConcepts(Source[p])})
        IN  /\ Len(loc.with_concepts) <= half
            /\ Len(loc.without_concepts) <= half
            /\ Len(loc.with_concepts) = IF nWith >= half THEN half ELSE nWith
            /\ Len(loc.without_concepts) = IF nWithout >= half THEN half ELSE nWithout
            /\ \A i \in 1..Len(loc.with_concepts) :
                  Occurrences(loc.with_concepts, loc.with_concepts[i])
                    <= Occurrences(loc.with_pool, loc.with_concepts[i])
            /\ \A i \in 1..Len(loc.without_concepts) :
                  Occurrences(loc.without_concepts, loc.without_concepts[i])
                    <= Occurrences(loc.without_pool, loc.without_concepts[i])

C5_Witness ==
    /\ PastSampling
    /\ base_conversations \div 2 = 1
    /\ Len(loc.with_pool) = 2
    /\ Len(loc.with_concepts) = 1
    /\ Len(loc.without_pool) = 0
    /\ Len(loc.without_concepts) = 0

\* C6: the has_concepts flag of every summary row is true exactly when the record
\* the row was made from has a non-empty concepts sequence without an empty string;
\* every record of the raw lookup has such a row.
C6_HasConceptsFlag ==
    written = Artifacts =>
        /\ \A i \in 1..Len(SummaryRows) :
              SummaryRows[i].has_concepts = ValidConcepts(loc.sampled_conversations[i])
        /\ \A k \in DOMAIN RawLookup :
              \E i \in 1..Len(SummaryRows) :
                  /\ JsonKey(SummaryRows[i].conversation_id) = k
                  /\ SummaryRows[i].has_concepts = ValidConcepts(RawLookup[k])

C6_Witness ==
    /\ written = Artifacts
    /\ \E i \in 1..Len(SummaryRows) :
          SummaryRows[i].concepts = <<"", "photosynthesis">> /\ ~SummaryRows[i].has_concepts
    /\ \E i \in 1..Len(SummaryRows) :
          ~HasKey(loc.sampled_conversations[i]["assignment"], "concepts")
          /\ ~SummaryRows[i].has_concepts
    /\ \E i \in 1..Len(SummaryRows) : SummaryRows[i].has_concepts

\* the reading rule, stated on the record
ReadingOf(conv) ==
    IF HasKey(conv["assignment"], "assignment_type")
       /\ conv["assignment"]["assignment_type"] = "Reading Responses"
    THEN IF HasKey(conv["assignment"], "text") THEN conv["assignment"]["text"] ELSE None
    ELSE IF HasKey(conv, "student_work") THEN conv["student_work"] ELSE None

\* C7: the student_reading of every summary row is assignment.text when the record's
\* assignment_type is "Reading Responses" and the record's student_work otherwise,
\* each absent when the record does not carry it.
C7_StudentReading ==
    written = Artifacts =>
        /\ \A i \in 1..Len(SummaryRows) :
              SummaryRows[i].student_reading = ReadingOf(loc.sampled_conversations[i])
        /\ \A k \in DOMAIN RawLookup :
              \E i \in 1..Len(SummaryRows) :
                  /\ JsonKey(SummaryRows[i].conversation_id) = k
                  /\ SummaryRows[i].student_reading = ReadingOf(RawLookup[k])

C7_Witness ==
    /\ written = Artifacts
    /\ \E i \in 1..Len(SummaryRows) :            \* a reading response without text
          /\ SummaryRows[i].assignment_type = "Reading Responses"
          /\ HasKey(loc.sampled_conversations[i], "student_work")
          /\ SummaryRows[i].student_reading = None
    /\ \E i \in 1..Len(SummaryRows) :            \* another type, with a text
          /\ SummaryRows[i].assignment_type = "Essay"
          /\ HasKey(loc.sampled_conversations[i]["assignment"], "text")
          /\ SummaryRows[i].student_reading = loc.sampled_conversations[i]["student_work"]
    /\ \E i \in 1..Len(SummaryRows) :            \* no type at all
          /\ SummaryRows[i].assignment_type = None
          /\ SummaryRows[i].student_reading = loc.sampled_conversations[i]["student_work"]

C9_StopsWithoutArtifacts ==
    (vpc # "off" /\ (~disk.summary.exists \/ ~disk.raw.exists)) => vpc = "stopped"

\* C10: after a successful preprocessing, picking any conversation of the filtered set
\* shows that conversation with its summary row and its raw record, and an empty
\* filtered set shows the prompt without a lookup.
C10_SelectionRetrieves ==
    (Succeeded /\ cache.loaded) =>
        /\ vpc # "crashed"
        /\ vpc = "shown" =>
              IF Len(filtered_df) = 0
              THEN view.kind = "prompt"
              ELSE /\ view.kind = "conversation"
                   /\ \E i \in 1..Len(filtered_df) :
                         filtered_df[i].conversation_id = view.selected
                   /\ view.metadata.conversation_id = view.selected
                   /\ view.conversation_data = RawLookup[view.selected]

====
